---------------------------- MODULE Spec2Model ----------------------------
(***************************************************************************)
(* A model of the multi-slot journal of kernel/pipe_new.c (the log half    *)
(* of the file, lines 177-599): begin_op / log_write / end_op, commit,     *)
(* and recovery at boot.                                                   *)
(*                                                                         *)
(* Every critical section of the source runs under logs.lock, so each is   *)
(* one action here.  commit() runs with no lock held and is one action per *)
(* disk write, so that a crash can fall between any two of them.           *)
(*                                                                         *)
(* A disk block is modelled by the three things the code reads from it:    *)
(* its first int (a header's n), the LOGSIZE ints after it (a header's     *)
(* block[]), and the rest.  A data block written by a transaction is       *)
(* filled with one value, the number of the transaction that wrote it.     *)
(*                                                                         *)
(* The pipe of the same file (lines 11-175) is modelled further down, with *)
(* its own specification PipeSpec; the journal's actions leave the pipe    *)
(* alone and the pipe's actions leave the journal alone.                   *)
(***************************************************************************)
EXTENDS Integers, Sequences, FiniteSets, TLC

(***************************************************************************)
(* Program parameters.                                                     *)
(***************************************************************************)
\* param.h (not among the sources): number of slots.  pipe_new.c:224 and
\* :240 state the build's value, and begin_op compares against it literally.
LOGCOPIES == 4
\* The literal of begin_op's "all logs committing" test, pipe_new.c:459.
ALL_COMMITTING == 4
\* param.h: a transaction's bound and a header's capacity, scaled down
\* (xv6 uses 10 and 30).
MAXOPBLOCKS == 1
LOGSIZE == 2
\* MAX_SEQ_NBR, pipe_new.c:245.
MAX_SEQ_NBR == LOGCOPIES + 1
\* The superblock's logstart and nlog: each slot gets a header block and
\* LOGSIZE payload blocks.
LOGSTART == 2
NLOG == LOGCOPIES * (LOGSIZE + 1)

(***************************************************************************)
(* Bounds of the model.                                                    *)
(***************************************************************************)
\* Number of kernel tasks issuing filesystem calls.
NTASKS == 2
\* Number of begin_op calls in one run (also the values written to blocks).
MaxTxn == 2
\* Number of begin_op calls of the single caller of SeqSpec, enough for
\* logs.seq_nbr to pass LOGCOPIES.
MaxSeq == 6

Tasks == 1..NTASKS
\* The holder field of a free lock.
NoTask == 0
Slots == 0..(LOGCOPIES - 1)
\* No log: the initial value of end_op's to_commit (pipe_new.c:487).
NoSlot == -1

\* initlog: log.size and log.start of slot i (pipe_new.c:290-291).
LogSize(i) == NLOG \div LOGCOPIES
LogStart(i) == LOGSTART + (i * LogSize(i))

\* The block write_head and read_head use for slot lognum
\* (pipe_new.c:336 and :359): log->start + (lognum * log->size).
HeadBlock(lognum) == LogStart(lognum) + (lognum * LogSize(lognum))

\* The log block holding payload number tail (0-based) of slot lognum
\* (pipe_new.c:311 and :537): log->start + tail + 1.
LogBlock(lognum, tail) == LogStart(lognum) + tail + 1

\* The log region of the superblock.
LogRegion == LOGSTART..(LOGSTART + NLOG - 1)
\* Home blocks the filesystem calls of the model modify: the two blocks
\* after the last block a header is written to.
TxnBlocks == {HeadBlock(LOGCOPIES - 1) + 1, HeadBlock(LOGCOPIES - 1) + 2}
\* The blocks of the disk the program touches: every block write_head
\* writes, every payload block of a log, and the blocks of transactions.
Blocks ==
  {HeadBlock(i) : i \in Slots}
    \cup {LogBlock(i, k) : i \in Slots, k \in 0..(LOGSIZE - 1)}
    \cup TxnBlocks
\* Every block outside the log region is a home block.
HomeBlocks == Blocks \ LogRegion

\* A zeroed block, and a block filled with value v.
DataBlock(v) == [n |-> v, block |-> [i \in 1..LOGSIZE |-> v], data |-> v]
ZeroBlock == DataBlock(0)

\* struct logheader as initlog's loop leaves it (pipe_new.c:293):
\* seq_nbr = -1; read_head overwrites n and seq_nbr before any use.
InitHeader == [n |-> 0, block |-> [i \in 1..LOGSIZE |-> 0], seq_nbr |-> -1]

\* initlog fills every logs.logs[i] from the automatic struct log of line
\* 288, whose outstanding and committing fields no statement writes: the
\* four copies (line 295) carry one indeterminate value each.  The values
\* below stand for negative, zero, below the cap and at the cap.
Indeterminate ==
  [outstanding : -1..LOGSIZE, committing : BOOLEAN]

VARIABLES
  phase,             \* "run", "crashed" (before recovery), "recovered"
  panicked,          \* "" or the message of the panic that halted a task
  active,            \* logs.active
  copies_committed,  \* logs.copies_committed
  seq_nbr,           \* logs.seq_nbr
  outstanding,       \* logs.logs[i].outstanding
  committing,        \* logs.logs[i].committing
  lh,                \* logs.logs[i].lh (in memory)
  logsLock,          \* holder of logs.lock, or NoTask
  logLock,           \* holder of logs.logs[i].lock, or NoTask
  disk,              \* block number -> block contents on the device
  cache,             \* buffer cache: value of each home block in memory
  pc,                \* each task's position
  to_commit,         \* end_op's local to_commit
  tail,              \* the loop index of write_log / install_trans
  \* history variables (never read by the program)
  ntxn,              \* number of begin_op calls so far
  txn,               \* the number of each task's current transaction, or 0
  admitted,          \* the slot whose outstanding begin_op incremented
  used,              \* the slot each task's last log_write / end_op acted on
  wrote,             \* distinct blocks the current transaction wrote
  pinned,            \* the blocks the current transaction's calls appended
  logged,            \* block -> value of its last log_write, 0 if none
  shadow,            \* home blocks after installing every committed header
  boot_n,            \* recovery: each header's n as read_head found it
  installs,          \* recovery: number of install_trans runs with n > 0
  junk,              \* the indeterminate field values initlog copies
  head_at            \* the block read_head or write_head last used per log

\* The pipe (struct pipe, pipe_new.c:29-36) and its two user processes.
VARIABLES
  nread,             \* pi->nread
  nwrite,            \* pi->nwrite
  readopen,          \* pi->readopen
  writeopen,         \* pi->writeopen
  data,              \* pi->data, index -> byte
  freed,             \* number of kfree calls on the pipe
  ppc,               \* position of the writer and of the reader
  killed,            \* pr->killed of the writer and of the reader
  req,               \* the argument n of the call in progress or last made
  mapped,            \* how many bytes at addr are mapped, while in the call
  done,              \* the local i of pipewrite while it sleeps
  ret,               \* the value the last call returned
  \* history variables (never read by the program)
  ncalls,            \* number of calls each process has made
  slept,             \* the call in progress or last made has slept
  entry,             \* the pipe as the call found it on entry
  seen,              \* what the test of line 141 last found
  killedin,          \* killed was set on entry or while the call slept
  written,           \* every byte copied into the pipe, in order
  readout,           \* every byte copied out of the pipe, in order
  rbuf,              \* the bytes the call of the reader copied out
  sizes,             \* the values of n the calls have used
  faulted            \* a copyin or copyout has failed

poolVars == <<active, copies_committed, seq_nbr>>
slotVars == <<outstanding, committing, lh>>
lockVars == <<logsLock, logLock>>
histVars == <<ntxn, txn, admitted, used, wrote, pinned, logged, shadow>>
bootVars == <<boot_n, installs, junk, head_at>>
logVars == <<phase, panicked, poolVars, slotVars, lockVars, disk, cache, pc,
             to_commit, tail, histVars, bootVars>>
pipeVars == <<nread, nwrite, readopen, writeopen, data, freed, ppc, killed,
              req, mapped, done, ret, ncalls, slept, entry, seen, killedin,
              written, readout, rbuf, sizes, faulted>>
vars == <<logVars, pipeVars>>

(***************************************************************************)
(* Locks, sleep and wakeup (spinlock.c and proc.c are not among the        *)
(* sources).  acquire spins until the lock is free.  A task that spins on  *)
(* a slot lock does so holding logs.lock, and every release of a slot lock *)
(* in the source happens under logs.lock, so such a task spins forever:    *)
(* its position becomes one of the "..._spin" positions.                   *)
(***************************************************************************)
holding(lk, t) == lk = t

\* release(lk): the lock word is cleared.
release(locks, i) == [locks EXCEPT ![i] = NoTask]

\* wakeup(&logs): every task sleeping on the channel becomes runnable and
\* re-evaluates its loop condition.
wakeup(p) ==
  [u \in Tasks |-> IF p[u] = "begin_sleep" THEN "begin_woken"
                   ELSE IF p[u] = "end_sleep" THEN "end_wait"
                   ELSE p[u]]

\* panic(msg): the calling task halts where it is, with the locks it holds.
panic(t, msg) ==
  /\ panicked' = msg
  /\ pc' = [pc EXCEPT ![t] = "panic"]

(***************************************************************************)
(* begin_op (pipe_new.c:454-480)                                           *)
(***************************************************************************)
\* Lines 458-465: acquire logs.lock, sleep while every log is committing,
\* then take the lock of the active log.
\* cap bounds the number of calls in one run.
begin_op_within(t, cap) ==
  /\ phase = "run"
  /\ pc[t] \in {"idle", "begin_woken"}
  /\ pc[t] = "idle" => ntxn < cap
  /\ logsLock = NoTask
  /\ IF pc[t] = "idle"
       THEN /\ ntxn' = ntxn + 1
            /\ txn' = [txn EXCEPT ![t] = ntxn + 1]
            /\ admitted' = [admitted EXCEPT ![t] = NoSlot]
            /\ used' = [used EXCEPT ![t] = NoSlot]
            /\ wrote' = [wrote EXCEPT ![t] = {}]
            /\ pinned' = [pinned EXCEPT ![t] = <<>>]
       ELSE UNCHANGED <<ntxn, txn, admitted, used, wrote, pinned>>
  /\ IF copies_committed = ALL_COMMITTING
       THEN /\ pc' = [pc EXCEPT ![t] = "begin_sleep"]
            /\ UNCHANGED lockVars
       ELSE IF logLock[active] # NoTask
         THEN /\ pc' = [pc EXCEPT ![t] = "begin_spin"]
              /\ logsLock' = t
              /\ UNCHANGED logLock
         ELSE /\ pc' = [pc EXCEPT ![t] = "begin_loop"]
              /\ logsLock' = t
              /\ logLock' = [logLock EXCEPT ![active] = t]
  /\ UNCHANGED <<phase, panicked, poolVars, slotVars, disk, cache, to_commit,
                 tail, logged, shadow, bootVars>>
  /\ UNCHANGED pipeVars

begin_op(t) == begin_op_within(t, MaxTxn)

\* The admission test of line 469.
AtCap(i) == lh[i].n + (outstanding[i] + 1) * MAXOPBLOCKS > LOGSIZE

\* Lines 467-471 and 478: the active log is committing or at its cap, move
\* to the next one.
begin_op_advance(t) ==
  /\ phase = "run"
  /\ pc[t] = "begin_loop"
  /\ committing[active] \/ AtCap(active)
  /\ active' = (active + 1) % LOGCOPIES
  /\ UNCHANGED <<phase, panicked, copies_committed, seq_nbr, slotVars,
                 lockVars, disk, cache, pc, to_commit, tail, histVars,
                 bootVars>>
  /\ UNCHANGED pipeVars

\* Lines 472-476: admitted.  release(&log->lock) names the lock of the log
\* that admits, which is the lock acquired at line 465 only when active was
\* not advanced.  Otherwise the caller does not hold it: xv6's release
\* panics on a lock its caller does not hold, a plain spinlock clears it.
begin_op_admit(t) ==
  /\ phase = "run"
  /\ pc[t] = "begin_loop"
  /\ ~committing[active]
  /\ ~AtCap(active)
  /\ outstanding' = [outstanding EXCEPT ![active] = @ + 1]
  /\ admitted' = [admitted EXCEPT ![t] = active]
  /\ \/ /\ holding(logLock[active], t)
        /\ logLock' = release(logLock, active)
        /\ logsLock' = NoTask
        /\ pc' = [pc EXCEPT ![t] = "in_op"]
        /\ UNCHANGED panicked
     \/ /\ ~holding(logLock[active], t)
        /\ logLock' = release(logLock, active)
        /\ logsLock' = NoTask
        /\ pc' = [pc EXCEPT ![t] = "in_op"]
        /\ UNCHANGED panicked
     \/ /\ ~holding(logLock[active], t)
        /\ panic(t, "release")
        /\ UNCHANGED lockVars
  /\ UNCHANGED <<phase, poolVars, committing, lh, disk, cache, to_commit,
                 tail, ntxn, txn, used, wrote, pinned, logged, shadow,
                 bootVars>>
  /\ UNCHANGED pipeVars

(***************************************************************************)
(* log_write (pipe_new.c:570-599)                                          *)
(***************************************************************************)
\* Lines 588-591: the index the absorption loop stops at (0-based).
AbsorbIndex(h, b) ==
  IF \E i \in 0..(h.n - 1) : h.block[i + 1] = b
    THEN CHOOSE i \in 0..(h.n - 1) :
           /\ h.block[i + 1] = b
           /\ \A j \in 0..(i - 1) : h.block[j + 1] # b
    ELSE h.n

\* Lines 592-596: the header after recording block b.
RecordBlock(h, b) ==
  LET i == AbsorbIndex(h, b)
  IN  [h EXCEPT !.block = [@ EXCEPT ![i + 1] = b],
                !.n = IF i = h.n THEN h.n + 1 ELSE h.n]

\* The caller has modified the buffer of block b (it now holds the value of
\* the caller's transaction) and calls log_write on it.
log_write(t, b) ==
  /\ phase = "run"
  /\ pc[t] = "in_op"
  /\ b \in wrote[t] \/ Cardinality(wrote[t]) < MAXOPBLOCKS
  /\ logsLock = NoTask
  /\ cache' = [cache EXCEPT ![b] = txn[t]]
  /\ wrote' = [wrote EXCEPT ![t] = @ \cup {b}]
  /\ IF logLock[active] # NoTask
       THEN /\ pc' = [pc EXCEPT ![t] = "write_spin"]
            /\ logsLock' = t
            /\ UNCHANGED <<panicked, logLock, lh, used, pinned, logged>>
       ELSE IF lh[active].n >= LOGSIZE \/ lh[active].n >= LogSize(active) - 1
         THEN /\ panic(t, "too big a transaction")
              /\ logsLock' = t
              /\ logLock' = [logLock EXCEPT ![active] = t]
              /\ UNCHANGED <<lh, used, pinned, logged>>
         ELSE IF outstanding[active] < 1
           THEN /\ panic(t, "log_write outside of trans")
                /\ logsLock' = t
                /\ logLock' = [logLock EXCEPT ![active] = t]
                /\ UNCHANGED <<lh, used, pinned, logged>>
           ELSE /\ lh' = [lh EXCEPT ![active] = RecordBlock(@, b)]
                /\ used' = [used EXCEPT ![t] = active]
                /\ pinned' = [pinned EXCEPT ![t] =
                     IF AbsorbIndex(lh[active], b) = lh[active].n
                       THEN Append(@, b) ELSE @]
                /\ logged' = [logged EXCEPT ![b] = txn[t]]
                /\ UNCHANGED <<panicked, pc, lockVars>>
  /\ UNCHANGED <<phase, poolVars, outstanding, committing, disk, to_commit,
                 tail, ntxn, txn, admitted, shadow, bootVars>>
  /\ UNCHANGED pipeVars

(***************************************************************************)
(* end_op (pipe_new.c:484-526)                                             *)
(***************************************************************************)
\* Lines 498-500: the log is sealed and stamped with the next sequence
\* number.
seal(i) ==
  /\ committing' = [committing EXCEPT ![i] = TRUE]
  /\ lh' = [lh EXCEPT ![i].seq_nbr = seq_nbr]
  /\ seq_nbr' = seq_nbr + 1
  /\ copies_committed' = copies_committed + 1

\* Lines 489-503: decrement the active log's count; the call that brings
\* it to zero seals the log and becomes its committer.
end_op(t) ==
  /\ phase = "run"
  /\ pc[t] = "in_op"
  /\ logsLock = NoTask
  /\ IF logLock[active] # NoTask
       THEN /\ pc' = [pc EXCEPT ![t] = "end_spin"]
            /\ logsLock' = t
            /\ UNCHANGED <<panicked, logLock, poolVars, slotVars, to_commit,
                           used>>
       ELSE /\ outstanding' = [outstanding EXCEPT ![active] = @ - 1]
            /\ used' = [used EXCEPT ![t] = active]
            /\ IF committing[active]
                 THEN /\ panic(t, "log.committing")
                      /\ logsLock' = t
                      /\ logLock' = [logLock EXCEPT ![active] = t]
                      /\ UNCHANGED <<poolVars, committing, lh, to_commit>>
                 ELSE IF outstanding[active] - 1 = 0
                   THEN /\ to_commit' = [to_commit EXCEPT ![t] = active]
                        /\ seal(active)
                        /\ pc' = [pc EXCEPT ![t] = "end_wait"]
                        /\ UNCHANGED <<panicked, active, lockVars>>
                   ELSE /\ to_commit' = [to_commit EXCEPT ![t] = NoSlot]
                        /\ pc' = [pc EXCEPT ![t] = "idle"]
                        /\ UNCHANGED <<panicked, poolVars, committing, lh,
                                       lockVars>>
  /\ IF pc'[t] = "idle"
       THEN /\ txn' = [txn EXCEPT ![t] = 0]
            /\ wrote' = [wrote EXCEPT ![t] = {}]
            /\ pinned' = [pinned EXCEPT ![t] = <<>>]
       ELSE UNCHANGED <<txn, wrote, pinned>>
  /\ UNCHANGED <<phase, disk, cache, tail, ntxn, admitted, logged, shadow,
                 bootVars>>
  /\ UNCHANGED pipeVars

\* A wait predicate that lets the most recently sealed log go first; the
\* install order property fails under it.
InstallTurn_newest(i) == lh[i].seq_nbr + 1 = seq_nbr

\* No wait at line 508: a committer goes ahead whatever the other logs do.
InstallTurn_nowait(i) == committing[i]

\* The predicate of line 508: it is log i's turn to commit.
InstallTurn(i) == lh[i].seq_nbr + copies_committed = seq_nbr

\* Lines 507-511: the committer sleeps on &logs until it is its log's turn.
end_op_wait(t) ==
  /\ phase = "run"
  /\ pc[t] = "end_wait"
  /\ logsLock = NoTask
  /\ pc' = [pc EXCEPT ![t] =
       IF InstallTurn(to_commit[t]) THEN "commit" ELSE "end_sleep"]
  /\ UNCHANGED <<phase, panicked, poolVars, slotVars, lockVars, disk, cache,
                 to_commit, tail, histVars, bootVars>>
  /\ UNCHANGED pipeVars

\* Line 519 without line 520: the flag is cleared, the count is kept.
unseal_nocount(i) ==
  /\ committing' = [committing EXCEPT ![i] = FALSE]
  /\ UNCHANGED copies_committed

\* Lines 519-520: the log leaves the committing state.
unseal(i) ==
  /\ committing' = [committing EXCEPT ![i] = FALSE]
  /\ copies_committed' = copies_committed - 1

\* Lines 516-524: the committer takes both locks again, clears committing
\* and wakes every sleeper on &logs.
end_op_finish(t) ==
  /\ phase = "run"
  /\ pc[t] = "end_finish"
  /\ logsLock = NoTask
  /\ IF logLock[to_commit[t]] # NoTask
       THEN /\ pc' = [pc EXCEPT ![t] = "finish_spin"]
            /\ logsLock' = t
            /\ UNCHANGED <<copies_committed, committing, to_commit, tail,
                           txn, wrote, pinned>>
       ELSE /\ unseal(to_commit[t])
            /\ pc' = wakeup([pc EXCEPT ![t] = "idle"])
            /\ to_commit' = [to_commit EXCEPT ![t] = NoSlot]
            /\ tail' = [tail EXCEPT ![t] = 0]
            /\ txn' = [txn EXCEPT ![t] = 0]
            /\ wrote' = [wrote EXCEPT ![t] = {}]
            /\ pinned' = [pinned EXCEPT ![t] = <<>>]
            /\ UNCHANGED logsLock
  /\ UNCHANGED <<phase, panicked, active, seq_nbr, outstanding, lh, logLock,
                 disk, cache, ntxn, admitted, used, logged, shadow, bootVars>>
  /\ UNCHANGED pipeVars

(***************************************************************************)
(* commit and its parts (pipe_new.c:303-320, 353-370, 528-559)             *)
(***************************************************************************)
\* write_head's effect on the header block (lines 363-367): n and the first
\* n block numbers are overwritten, the rest of the block is left.
HeaderWrite(old, h) ==
  [old EXCEPT !.n = h.n,
              !.block = [i \in 1..LOGSIZE |->
                           IF i <= h.n THEN h.block[i] ELSE old.block[i]]]

\* A write_head whose block never reaches the disk.
write_head_skip(d, lognum, h) == d

\* write_head(lognum) on disk d with the in-memory header h.
write_head(d, lognum, h) ==
  [d EXCEPT ![HeadBlock(lognum)] = HeaderWrite(@, h)]

\* Line 552: commit() does nothing for an empty log.
commit(t) ==
  /\ phase = "run"
  /\ pc[t] = "commit"
  /\ IF lh[to_commit[t]].n > 0
       THEN /\ pc' = [pc EXCEPT ![t] = "write_log"]
            /\ tail' = [tail EXCEPT ![t] = 0]
       ELSE /\ pc' = [pc EXCEPT ![t] = "end_finish"]
            /\ UNCHANGED tail
  /\ UNCHANGED <<phase, panicked, poolVars, slotVars, lockVars, disk, cache,
                 to_commit, histVars, bootVars>>
  /\ UNCHANGED pipeVars

\* One iteration of write_log's loop (lines 536-543): the cached copy of
\* the block goes to the log.
write_log(t) ==
  LET lognum == to_commit[t]
      h == lh[lognum]
  IN  /\ phase = "run"
      /\ pc[t] = "write_log"
      /\ disk' = [disk EXCEPT ![LogBlock(lognum, tail[t])] =
                    DataBlock(cache[h.block[tail[t] + 1]])]
      /\ tail' = [tail EXCEPT ![t] = @ + 1]
      /\ pc' = [pc EXCEPT ![t] =
           IF tail[t] + 1 < h.n THEN "write_log" ELSE "write_head"]
      /\ UNCHANGED <<phase, panicked, poolVars, slotVars, lockVars, cache,
                     to_commit, histVars, bootVars>>
      /\ UNCHANGED pipeVars

\* The home blocks once the log with header h is installed from disk d.
Installed(sh, d, lognum, h) ==
  [b \in HomeBlocks |->
     IF \E i \in 1..h.n : h.block[i] = b
       THEN d[LogBlock(lognum,
              (CHOOSE i \in 1..h.n :
                 /\ h.block[i] = b
                 /\ \A j \in (i + 1)..h.n : h.block[j] # b) - 1)]
       ELSE sh[b]]

\* Line 554: the header with n > 0 reaches the disk, the commit point.
commit_write_head(t) ==
  LET lognum == to_commit[t]
  IN  /\ phase = "run"
      /\ pc[t] = "write_head"
      /\ disk' = write_head(disk, lognum, lh[lognum])
      /\ shadow' = Installed(shadow, disk, lognum, lh[lognum])
      /\ head_at' = [head_at EXCEPT ![lognum] = HeadBlock(lognum)]
      /\ tail' = [tail EXCEPT ![t] = 0]
      /\ pc' = [pc EXCEPT ![t] = "install_trans"]
      /\ UNCHANGED <<phase, panicked, poolVars, slotVars, lockVars, cache,
                     to_commit, ntxn, txn, admitted, used, wrote, pinned,
                     logged, boot_n, installs, junk>>
      /\ UNCHANGED pipeVars

\* One iteration of install_trans(0, lognum) (lines 310-319): the log block
\* is copied over the cached destination, which is written home.
install_trans(t) ==
  LET lognum == to_commit[t]
      h == lh[lognum]
      dst == h.block[tail[t] + 1]
      lbuf == disk[LogBlock(lognum, tail[t])]
  IN  /\ phase = "run"
      /\ pc[t] = "install_trans"
      /\ disk' = [disk EXCEPT ![dst] = lbuf]
      /\ cache' = [cache EXCEPT ![dst] = lbuf.data]
      /\ tail' = [tail EXCEPT ![t] = @ + 1]
      /\ pc' = [pc EXCEPT ![t] =
           IF tail[t] + 1 < h.n THEN "install_trans" ELSE "erase"]
      /\ UNCHANGED <<phase, panicked, poolVars, slotVars, lockVars,
                     to_commit, histVars, bootVars>>
      /\ UNCHANGED pipeVars

\* Lines 556-557: n is zeroed and the header written again.
commit_erase(t) ==
  LET lognum == to_commit[t]
      h == [lh[lognum] EXCEPT !.n = 0]
  IN  /\ phase = "run"
      /\ pc[t] = "erase"
      /\ lh' = [lh EXCEPT ![lognum] = h]
      /\ disk' = write_head(disk, lognum, h)
      /\ head_at' = [head_at EXCEPT ![lognum] = HeadBlock(lognum)]
      /\ pc' = [pc EXCEPT ![t] = "end_finish"]
      /\ UNCHANGED <<phase, panicked, poolVars, outstanding, committing,
                     lockVars, cache, to_commit, tail, histVars, boot_n,
                     installs, junk>>
      /\ UNCHANGED pipeVars

(***************************************************************************)
(* Crash and recovery (pipe_new.c:322-347, 376-451)                        *)
(***************************************************************************)
\* read_head (lines 333-345): n, seq_nbr and the first n block numbers of
\* every header come from the disk; write_head never stores seq_nbr, so the
\* field holds what the rest of the block holds.
read_head(d) ==
  [i \in Slots |->
     [n |-> d[HeadBlock(i)].n,
      seq_nbr |-> d[HeadBlock(i)].data,
      block |-> [j \in 1..LOGSIZE |->
                   IF j <= d[HeadBlock(i)].n THEN d[HeadBlock(i)].block[j]
                   ELSE InitHeader.block[j]]]]

\* find_first_commit (lines 376-420) on the headers h; -1 is the panic.
find_first_commit(h) ==
  LET byCount ==
        IF h[0].n = 0
          THEN IF \E i \in Slots : h[i].n > 0
                 THEN CHOOSE i \in Slots :
                        /\ h[i].n > 0
                        /\ \A j \in 0..(i - 1) : h[j].n = 0
                 ELSE 0
          ELSE IF \E i \in 1..(LOGCOPIES - 1) : h[i].n = 0
                 THEN ((CHOOSE i \in 1..(LOGCOPIES - 1) :
                          /\ h[i].n = 0
                          /\ \A j \in (i + 1)..(LOGCOPIES - 1) : h[j].n # 0)
                       + 1) % MAX_SEQ_NBR
                 ELSE -1
      gap(i) == h[i].seq_nbr + 1 # h[(i + 1) % LOGCOPIES].seq_nbr
  IN  IF byCount >= 0 THEN byCount
      ELSE IF \E i \in Slots : gap(i)
        THEN ((CHOOSE i \in Slots : gap(i) /\ \A j \in 0..(i - 1) : ~gap(j))
              + 1) % LOGCOPIES
        ELSE -1

\* install_trans(1, lognum) from iteration k on (lines 310-319), on disk d.
RECURSIVE install_all(_, _, _, _)
install_all(d, lognum, h, k) ==
  IF k >= h.n THEN d
  ELSE install_all([d EXCEPT ![h.block[k + 1]] = d[LogBlock(lognum, k)]],
                   lognum, h, k + 1)

\* The loop of recover_from_log (lines 445-450) from index i on: the disk,
\* the headers in memory and the count of installs it ends with.
RECURSIVE recover_loop(_, _, _, _)
recover_loop(i, d, h, inst) ==
  IF i >= LOGCOPIES THEN [disk |-> d, lh |-> h, installs |-> inst]
  ELSE LET lognum == i % LOGCOPIES
           d1 == install_all(d, lognum, h[lognum], 0)
           h1 == [h EXCEPT ![lognum].n = 0]
       IN  recover_loop(i + 1, write_head(d1, lognum, h1[lognum]), h1,
                        [inst EXCEPT ![lognum] =
                           IF h[lognum].n > 0 THEN @ + 1 ELSE @])

\* Power fails: memory is lost, the disk stays.  The next boot's initlog
\* (lines 279-297) rebuilds the memory state, up to the call of
\* recover_from_log.
Crash ==
  /\ phase = "run"
  /\ phase' = "crashed"
  /\ panicked' = ""
  /\ active' = 0
  /\ copies_committed' = 0
  /\ seq_nbr' = 0
  /\ outstanding' = [i \in Slots |-> junk.outstanding]
  /\ committing' = [i \in Slots |-> junk.committing]
  /\ lh' = [i \in Slots |-> InitHeader]
  /\ logsLock' = NoTask
  /\ logLock' = [i \in Slots |-> NoTask]
  /\ pc' = [t \in Tasks |-> "idle"]
  /\ to_commit' = [t \in Tasks |-> NoSlot]
  /\ tail' = [t \in Tasks |-> 0]
  /\ cache' = [b \in TxnBlocks |-> disk[b].data]
  /\ ntxn' = 0
  /\ txn' = [t \in Tasks |-> 0]
  /\ admitted' = [t \in Tasks |-> NoSlot]
  /\ used' = [t \in Tasks |-> NoSlot]
  /\ wrote' = [t \in Tasks |-> {}]
  /\ pinned' = [t \in Tasks |-> <<>>]
  /\ logged' = [b \in TxnBlocks |-> 0]
  /\ UNCHANGED <<disk, shadow, bootVars>>
  /\ UNCHANGED pipeVars

\* initlog at the next boot runs recover_from_log (lines 422-451).
recover_from_log ==
  LET h == read_head(disk)
      first == find_first_commit(h)
      r == recover_loop(first, disk, h, [i \in Slots |-> 0])
  IN  /\ phase = "crashed"
      /\ phase' = "recovered"
      /\ boot_n' = [i \in Slots |-> h[i].n]
      /\ head_at' = [i \in Slots |-> HeadBlock(i)]
      /\ IF first < 0
           THEN /\ panicked' = "find first commit"
                /\ lh' = h
                /\ installs' = [i \in Slots |-> 0]
                /\ UNCHANGED <<disk, cache>>
           ELSE /\ lh' = r.lh
                /\ disk' = r.disk
                /\ installs' = r.installs
                /\ cache' = [b \in TxnBlocks |-> r.disk[b].data]
                /\ UNCHANGED panicked
      /\ UNCHANGED <<poolVars, outstanding, committing, lockVars, pc,
                     to_commit, tail, histVars, junk>>
      /\ UNCHANGED pipeVars

----------------------------------------------------------------------------
\* The pipe (pipe_new.c:11-175).  One writer process "w" holds the write
\* end and one reader process "r" the read end.  Every stretch of code that
\* runs with pi->lock held is one action: a call runs from its acquire to
\* its return or to its sleep, and a woken sleeper runs from the re-acquire
\* in sleep to its return or next sleep.

\* PIPESIZE is 2048 in the source and uint is 32 bits wide; both are scaled
\* down, keeping PIPESIZE a power of two that divides the range of uint, so
\* that the ring index and the counters wrap within a few calls.
PIPESIZE == 4
UintMod == 2 * PIPESIZE

MaxReq == 4      \* largest n a call passes
MaxCalls == 2    \* calls each process makes
MaxUnmapped == 1 \* bytes at the end of a user buffer that may be unmapped

Procs == {"w", "r"}

\* Byte k of the user buffer the writer passes to its c-th call.
UserByte(c, k) == <<c, k>>
\* What the page kalloc returned holds before anything is written to it.
Junk == <<0, 0>>

min(a, b) == IF a < b THEN a ELSE b

\* Arithmetic on uint.
Uint(x) == (x + UintMod) % UintMod

\* line 121: where in data the next span of pipewrite goes.
WriteAt_off(nw) == (nw + 1) % PIPESIZE

WriteAt_first(nw) == 0

WriteAt(nw) == nw % PIPESIZE

\* line 101: pipewrite gives up.
WriteFails_killedonly == killed["w"]

WriteFails_closedonly == readopen = 0

WriteFails == readopen = 0 \/ killed["w"]

\* The full test in unbounded arithmetic: no sum ever wraps.
Full_nowrap(nw, nr) == nw = nr + PIPESIZE

\* line 105: the ring is full.
Full(nw, nr) == nw = Uint(nr + PIPESIZE)

\* lines 110-111: the span one iteration of pipewrite copies.
WriteDelta_nofree(n, i, nw, nr) ==
  min(n - i, PIPESIZE - (nw % PIPESIZE))

WriteDelta(n, i, nw, nr) ==
  min(min(n - i, PIPESIZE - Uint(nw - nr)), PIPESIZE - (nw % PIPESIZE))

\* lines 155-156: the span one iteration of piperead copies.
ReadDelta_noreq(n, i, nw, nr) ==
  min(Uint(nw - nr), PIPESIZE - (nr % PIPESIZE))

ReadDelta(n, i, nw, nr) ==
  min(min(Uint(nw - nr), n - i), PIPESIZE - (nr % PIPESIZE))

\* line 141: piperead waits.
ReadWait_noeof(nw, nr) == nr = nw

ReadWait(nw, nr) == nr = nw /\ writeopen = 1

\* line 85: the second close frees the pipe.
BothClosed_either(ro, wo) == ro = 0 \/ wo = 0

BothClosed(ro, wo) == ro = 0 /\ wo = 0

\* No process is in a call on the pipe and none has been observed.
NoCalls ==
  /\ ppc = [p \in Procs |-> "idle"]
  /\ killed = [p \in Procs |-> FALSE]
  /\ req = [p \in Procs |-> 0]
  /\ mapped = [p \in Procs |-> 0]
  /\ done = [p \in Procs |-> 0]
  /\ ret = [p \in Procs |-> 0]
  /\ ncalls = [p \in Procs |-> 0]
  /\ slept = [p \in Procs |-> FALSE]
  /\ entry = [p \in Procs |-> [empty |-> TRUE, nwrite |-> 0, readopen |-> 1,
                              writeopen |-> 1, killed |-> FALSE]]
  /\ seen = [empty |-> TRUE, writeopen |-> 1]
  /\ killedin = [p \in Procs |-> FALSE]
  /\ written = <<>>
  /\ readout = <<>>
  /\ rbuf = <<>>
  /\ sizes = {}
  /\ faulted = FALSE

\* pipealloc (lines 47-53): both ends open, the counters zero.
pipealloc ==
  /\ nread = 0
  /\ nwrite = 0
  /\ readopen = 1
  /\ writeopen = 1
  /\ data = [x \in 0..(PIPESIZE - 1) |-> Junk]
  /\ freed = 0
  /\ NoCalls

\* What a call finds when it holds the lock.
Found(p) == [empty |-> nread = nwrite, nwrite |-> nwrite,
             readopen |-> readopen, writeopen |-> writeopen,
             killed |-> killed[p]]

\* wakeup(chan): the process asleep on the channel becomes runnable.  The
\* reader sleeps on &pi->nread, the writer on &pi->nwrite.
Woken(pp, p) == [pp EXCEPT ![p] = IF @ = "sleep" THEN "woken" ELSE @]

\* pr->killed is read at line 101 without a lock that kill() takes, so a
\* kill from another CPU can land between two iterations of the loop.  A
\* call carries the value of i from which the loop sees the flag set;
\* NoKill when no kill lands during the call.
NoKill == 0

KillAt(n, i0) ==
  IF killed["w"] THEN {NoKill} ELSE {NoKill} \cup ((i0 + 1)..(n - 1))

KillLanded(s) == s.killat # NoKill /\ s.i >= s.killat

\* The loop of pipewrite (lines 100-128) from its top, for the c-th call with
\* arguments n and m mapped bytes at addr, until it leaves: "fail" is the
\* return of line 103, "sleep" the sleep of line 107, "fault" the break of
\* line 122 and "done" the exit at i >= n.  copyin copies what is mapped
\* before it fails.
RECURSIVE pipewrite_loop(_, _, _, _)
pipewrite_loop(n, m, c, s) ==
  IF ~(s.i < n) THEN [s EXCEPT !.out = "done"]
  ELSE IF WriteFails \/ KillLanded(s) THEN [s EXCEPT !.out = "fail"]
  ELSE IF Full(s.nwrite, nread) THEN [s EXCEPT !.out = "sleep"]
  ELSE
    LET delta == WriteDelta(n, s.i, s.nwrite, nread)
        at == WriteAt(s.nwrite)
        ok == s.i + delta <= m
        copied == IF ok THEN delta ELSE IF m > s.i THEN m - s.i ELSE 0
        d == [x \in 0..(PIPESIZE - 1) |->
                IF x >= at /\ x < at + copied
                THEN UserByte(c, s.i + (x - at)) ELSE s.data[x]]
    IN  IF ~ok THEN [s EXCEPT !.data = d, !.out = "fault"]
        ELSE pipewrite_loop(n, m, c,
               [s EXCEPT !.data = d,
                         !.nwrite = Uint(@ + delta),
                         !.i = @ + delta,
                         !.written = @ \o [k \in 1..delta |->
                                             UserByte(c, s.i + k - 1)]])

\* The critical section of pipewrite that starts with i = i0: lines 99-132
\* on entry, lines 100-132 after the sleep.
pipewrite_run(n, m, c, i0, sl, ka) ==
  LET s == pipewrite_loop(n, m, c,
             [i |-> i0, nwrite |-> nwrite, data |-> data,
              written |-> written, out |-> "", killat |-> ka])
  IN  /\ nwrite' = s.nwrite
      /\ killed' = [killed EXCEPT !["w"] =
                      @ \/ (s.out = "fail" /\ KillLanded(s))]
      /\ data' = s.data
      /\ written' = s.written
      /\ done' = [done EXCEPT !["w"] = IF s.out = "sleep" THEN s.i ELSE 0]
      /\ mapped' = [mapped EXCEPT !["w"] = IF s.out = "sleep" THEN m ELSE 0]
      /\ faulted' = (faulted \/ s.out = "fault")
      /\ ret' = [ret EXCEPT !["w"] = IF s.out = "fail" THEN -1
                                      ELSE IF s.out = "sleep" THEN @
                                      ELSE s.i]
      /\ slept' = [slept EXCEPT !["w"] = sl \/ s.out = "sleep"]
      /\ ppc' = LET pp == [ppc EXCEPT !["w"] = IF s.out = "sleep"
                                                THEN "sleep" ELSE "idle"]
                IN  IF s.out = "fail" THEN pp ELSE Woken(pp, "r")
      /\ UNCHANGED <<nread, readopen, writeopen, freed, readout, rbuf, seen>>

\* pipewrite(pi, addr, n), lines 92-133, up to its return or first sleep.
pipewrite(n, m) ==
  /\ ppc["w"] = "idle"
  /\ writeopen = 1
  /\ ncalls["w"] < MaxCalls
  /\ req' = [req EXCEPT !["w"] = n]
  /\ ncalls' = [ncalls EXCEPT !["w"] = @ + 1]
  /\ entry' = [entry EXCEPT !["w"] = Found("w")]
  /\ killedin' = [killedin EXCEPT !["w"] = killed["w"]]
  /\ sizes' = sizes \cup {n}
  /\ \E ka \in KillAt(n, 0) :
       pipewrite_run(n, m, ncalls["w"] + 1, 0, FALSE, ka)
  /\ UNCHANGED logVars

\* The writer returns from sleep (line 107) and goes round the loop.
pipewrite_wake ==
  /\ ppc["w"] = "woken"
  /\ \E ka \in KillAt(req["w"], done["w"]) :
       pipewrite_run(req["w"], mapped["w"], ncalls["w"], done["w"], TRUE, ka)
  /\ UNCHANGED <<req, ncalls, entry, killedin, sizes>>
  /\ UNCHANGED logVars

\* The copy loop of piperead (lines 151-170) from its top until it leaves:
\* "fault" is the break of line 165, "done" the break of line 153 or the
\* exit at i >= n.
RECURSIVE piperead_loop(_, _, _)
piperead_loop(n, m, s) ==
  IF ~(s.i < n) THEN [s EXCEPT !.out = "done"]
  ELSE IF s.nread = nwrite THEN [s EXCEPT !.out = "done"]
  ELSE
    LET delta == ReadDelta(n, s.i, nwrite, s.nread)
        at == s.nread % PIPESIZE
        bytes == [k \in 1..delta |-> data[at + k - 1]]
    IN  IF ~(s.i + delta <= m) THEN [s EXCEPT !.out = "fault"]
        ELSE piperead_loop(n, m,
               [s EXCEPT !.nread = Uint(@ + delta),
                         !.i = @ + delta,
                         !.readout = @ \o bytes,
                         !.rbuf = @ \o bytes])

\* The critical section of piperead that starts at the test of line 141:
\* lines 140-174 on entry, lines 141-174 after the sleep.
piperead_run(n, m, sl) ==
  /\ seen' = [empty |-> nread = nwrite, writeopen |-> writeopen]
  /\ IF ReadWait(nwrite, nread)
     THEN /\ IF killed["r"]
             THEN /\ ppc' = [ppc EXCEPT !["r"] = "idle"]
                  /\ ret' = [ret EXCEPT !["r"] = -1]
                  /\ slept' = [slept EXCEPT !["r"] = sl]
                  /\ mapped' = [mapped EXCEPT !["r"] = 0]
             ELSE /\ ppc' = [ppc EXCEPT !["r"] = "sleep"]
                  /\ slept' = [slept EXCEPT !["r"] = TRUE]
                  /\ mapped' = [mapped EXCEPT !["r"] = m]
                  /\ UNCHANGED ret
          /\ rbuf' = <<>>
          /\ UNCHANGED <<nread, readout, faulted>>
     ELSE LET s == piperead_loop(n, m,
                     [i |-> 0, nread |-> nread, readout |-> readout,
                      rbuf |-> <<>>, out |-> ""])
          IN  /\ nread' = s.nread
              /\ readout' = s.readout
              /\ rbuf' = s.rbuf
              /\ mapped' = [mapped EXCEPT !["r"] = 0]
              /\ faulted' = (faulted \/ s.out = "fault")
              /\ ret' = [ret EXCEPT !["r"] = s.i]
              /\ slept' = [slept EXCEPT !["r"] = sl]
              /\ ppc' = Woken([ppc EXCEPT !["r"] = "idle"], "w")
  /\ UNCHANGED <<nwrite, data, written, readopen, writeopen, freed, killed,
                 done>>

\* piperead(pi, addr, n), lines 135-175, up to its return or first sleep.
piperead(n, m) ==
  /\ ppc["r"] = "idle"
  /\ readopen = 1
  /\ ncalls["r"] < MaxCalls
  /\ req' = [req EXCEPT !["r"] = n]
  /\ ncalls' = [ncalls EXCEPT !["r"] = @ + 1]
  /\ entry' = [entry EXCEPT !["r"] = Found("r")]
  /\ killedin' = [killedin EXCEPT !["r"] = killed["r"]]
  /\ sizes' = sizes \cup {n}
  /\ piperead_run(n, m, FALSE)
  /\ UNCHANGED logVars

\* The reader returns from sleep (line 146) and tests line 141 again.
piperead_wake ==
  /\ ppc["r"] = "woken"
  /\ piperead_run(req["r"], mapped["r"], TRUE)
  /\ UNCHANGED <<req, ncalls, entry, killedin, sizes>>
  /\ UNCHANGED logVars

\* pipeclose(pi, writable), lines 74-90.  A process closes its own end, once,
\* and not from inside a call on it.
pipeclose(p) ==
  /\ ppc[p] = "idle"
  /\ IF p = "w" THEN writeopen = 1 ELSE readopen = 1
  /\ writeopen' = IF p = "w" THEN 0 ELSE writeopen
  /\ readopen' = IF p = "w" THEN readopen ELSE 0
  /\ ppc' = Woken(ppc, IF p = "w" THEN "r" ELSE "w")
  /\ freed' = IF BothClosed(readopen', writeopen') THEN freed + 1 ELSE freed
  /\ UNCHANGED <<nread, nwrite, data, killed, req, mapped, done, ret, ncalls,
                 slept, entry, seen, killedin, written, readout, rbuf, sizes,
                 faulted>>
  /\ UNCHANGED logVars

\* kill of the process p: its flag is set and, if it sleeps, it is made
\* runnable.
kill(p) ==
  /\ ~killed[p]
  /\ IF p = "w" THEN writeopen = 1 ELSE readopen = 1
  /\ killed' = [killed EXCEPT ![p] = TRUE]
  /\ ppc' = Woken(ppc, p)
  /\ killedin' = [killedin EXCEPT ![p] = @ \/ ppc[p] \in {"sleep", "woken"}]
  /\ UNCHANGED <<nread, nwrite, readopen, writeopen, data, freed, req,
                 mapped, done, ret, ncalls, slept, entry, seen, written,
                 readout, rbuf, sizes, faulted>>
  /\ UNCHANGED logVars

\* The state initlog leaves (pipe_new.c:279-300) on a formatted disk, all
\* zeros: the globals are zero-initialised, the fields of every log are
\* those of the automatic struct of line 288, and recover_from_log has read
\* the (empty) headers.
LogInit ==
  /\ phase = "run"
  /\ panicked = ""
  /\ junk \in Indeterminate
  /\ active = 0
  /\ copies_committed = 0
  /\ seq_nbr = 0
  /\ outstanding = [i \in Slots |-> junk.outstanding]
  /\ committing = [i \in Slots |-> junk.committing]
  /\ disk = [b \in Blocks |-> ZeroBlock]
  /\ lh = LET h == read_head(disk)
          IN  recover_loop(find_first_commit(h), disk, h,
                           [i \in Slots |-> 0]).lh
  /\ logsLock = NoTask
  /\ logLock = [i \in Slots |-> NoTask]
  /\ pc = [t \in Tasks |-> "idle"]
  /\ to_commit = [t \in Tasks |-> NoSlot]
  /\ tail = [t \in Tasks |-> 0]
  /\ cache = [b \in TxnBlocks |-> 0]
  /\ ntxn = 0
  /\ txn = [t \in Tasks |-> 0]
  /\ admitted = [t \in Tasks |-> NoSlot]
  /\ used = [t \in Tasks |-> NoSlot]
  /\ wrote = [t \in Tasks |-> {}]
  /\ pinned = [t \in Tasks |-> <<>>]
  /\ logged = [b \in TxnBlocks |-> 0]
  /\ shadow = [b \in HomeBlocks |-> ZeroBlock]
  /\ boot_n = [i \in Slots |-> 0]
  /\ installs = [i \in Slots |-> 0]
  /\ head_at = [i \in Slots |-> HeadBlock(i)]

Init == LogInit /\ pipealloc

Next ==
  \/ \E t \in Tasks :
       \/ begin_op(t)
       \/ begin_op_advance(t)
       \/ begin_op_admit(t)
       \/ \E b \in TxnBlocks : log_write(t, b)
       \/ end_op(t)
       \/ end_op_wait(t)
       \/ commit(t)
       \/ write_log(t)
       \/ commit_write_head(t)
       \/ install_trans(t)
       \/ commit_erase(t)
       \/ end_op_finish(t)
  \/ Crash
  \/ recover_from_log

Spec == Init /\ [][Next]_vars

\* One task making filesystem calls one after the other, MaxSeq of them,
\* with no crash: the runs in which logs.seq_nbr counts furthest.
Caller == 1

SeqNext ==
  \/ begin_op_within(Caller, MaxSeq)
  \/ begin_op_advance(Caller)
  \/ begin_op_admit(Caller)
  \/ \E b \in TxnBlocks : log_write(Caller, b)
  \/ end_op(Caller)
  \/ end_op_wait(Caller)
  \/ commit(Caller)
  \/ write_log(Caller)
  \/ commit_write_head(Caller)
  \/ install_trans(Caller)
  \/ commit_erase(Caller)
  \/ end_op_finish(Caller)

SeqSpec == Init /\ [][SeqNext]_vars

\* The pipe on its own: the journal stays as a clean boot left it.
PipeInit ==
  /\ Init
  /\ junk = [outstanding |-> 0, committing |-> FALSE]

\* The numbers of mapped bytes a buffer of n bytes may have.
Mapped(n) == {m \in 0..n : n - m <= MaxUnmapped}

PipeNext ==
  \/ \E n \in 0..MaxReq : \E m \in Mapped(n) : pipewrite(n, m)
  \/ pipewrite_wake
  \/ \E n \in 0..MaxReq : \E m \in Mapped(n) : piperead(n, m)
  \/ piperead_wake
  \/ \E p \in Procs : pipeclose(p)
  \/ \E p \in Procs : kill(p)

PipeSpec == PipeInit /\ [][PipeNext]_vars

\* The pipe under a scheduler that runs a runnable process: a process made
\* runnable by wakeup or kill returns from its sleep.  Calls, closes and
\* kills happen when the processes choose.
PipeFairSpec ==
  /\ PipeInit
  /\ [][PipeNext]_vars
  /\ WF_vars(pipewrite_wake)
  /\ WF_vars(piperead_wake)

\* A pipe that has carried Carried bytes, all of them read: both counters
\* stand two bytes before the end of uint, both ends are open, and the
\* bytes accepted and returned are counted from here.
Carried == UintMod - 2

WrapInit ==
  /\ LogInit
  /\ junk = [outstanding |-> 0, committing |-> FALSE]
  /\ nread = Carried
  /\ nwrite = Carried
  /\ readopen = 1
  /\ writeopen = 1
  /\ data = [x \in 0..(PIPESIZE - 1) |-> Junk]
  /\ freed = 0
  /\ NoCalls

WrapSpec == WrapInit /\ [][PipeNext]_vars

TypeOK ==
  /\ phase \in {"run", "crashed", "recovered"}
  /\ active \in Slots
  /\ copies_committed \in 0..LOGCOPIES
  /\ \A i \in Slots : lh[i].n \in 0..LOGSIZE
  /\ \A b \in TxnBlocks : cache[b] \in 0..MaxSeq

\* The boot happened to leave every log's outstanding and committing zero.
CleanBoot == junk = [outstanding |-> 0, committing |-> FALSE]

(***************************************************************************)
(* Properties                                                              *)
(***************************************************************************)
\* Positions between the end of the committer's wait and its clearing of
\* the committing flag.
CommitPcs == {"commit", "write_log", "write_head", "install_trans", "erase",
              "end_finish", "finish_spin"}

\* Positions of a task that has sealed a log and not yet cleared its flag.
SealedPcs == {"end_wait", "end_sleep"} \cup CommitPcs

\* The first n entries of a header, as a sequence.
Entries(h) == [k \in 1..h.n |-> h.block[k]]
NoRepeat(q) == \A j, k \in 1..Len(q) : j # k => q[j] # q[k]

\* C1 (crash atomicity): after a crash at any point and recovery, the home
\* blocks are those obtained by installing, in commit order, exactly the
\* logs whose header with n > 0 reached the disk.
C1_CrashAtomicity ==
  (CleanBoot /\ phase = "recovered") =>
    \A b \in HomeBlocks : disk[b] = shadow[b]

\* C2 (install order): while the committer of a sealed log is between the
\* end of its wait and the clearing of its committing flag, every other
\* sealed log has a higher sequence number: no committer of a later log is
\* in commit() before the committer of an earlier one has finished.
C2_InstallOrder ==
  \A t, u \in Tasks :
    (t # u /\ pc[t] \in CommitPcs /\ pc[u] \in SealedPcs) =>
      lh[to_commit[t]].seq_nbr < lh[to_commit[u]].seq_nbr

\* C2 witness: one committer is writing its header while the committer of
\* a later sealed log sleeps waiting for its turn.
C2_Witness ==
  \E t, u \in Tasks :
    /\ pc[t] = "write_head"
    /\ pc[u] = "end_sleep"
    /\ committing[to_commit[u]]
    /\ lh[to_commit[t]].seq_nbr < lh[to_commit[u]].seq_nbr

\* C3 (no torn transaction): every log_write and the end_op of a task act
\* on the log that admitted the task's begin_op.
C3_NoTornTransaction ==
  CleanBoot => \A t \in Tasks : used[t] # NoSlot => used[t] = admitted[t]

\* C4 (no overflow): with at most MAXOPBLOCKS distinct blocks per
\* transaction, no header exceeds LOGSIZE entries and no log_write reaches
\* the "too big a transaction" panic.
C4_NoOverflow ==
  CleanBoot =>
    /\ \A i \in Slots : lh[i].n <= LOGSIZE
    /\ panicked # "too big a transaction"

\* C5 (absorption): the log_write calls of one transaction append each
\* block at most once, and no header lists a block at two indices.
C5_Absorption ==
  CleanBoot =>
    /\ \A t \in Tasks : NoRepeat(pinned[t])
    /\ \A i \in Slots : NoRepeat(Entries(lh[i]))

\* C6 (committed count): in every reachable state copies_committed is the
\* number of logs whose committing flag is set, hence between 0 and
\* LOGCOPIES.
C6_CopiesCommitted ==
  /\ copies_committed = Cardinality({i \in Slots : committing[i]})
  /\ 0 <= copies_committed
  /\ copies_committed <= LOGCOPIES

\* The count is exact on every boot that left the committing fields zero:
\* seal and unseal keep it.
CountExactOnZeroFlags == ~junk.committing => C6_CopiesCommitted

\* C7 (single accepting slot): only the active log has outstanding > 0.
C7_SingleAcceptingSlot ==
  CleanBoot => \A i \in Slots : outstanding[i] > 0 => i = active

\* A begin_op call of task t that can no longer return: it loops over logs
\* that are all committing or at their cap while holding logs.lock, it
\* spins on a slot lock that is never released, or it has panicked.
BeginOpStuck(t) ==
  \/ /\ pc[t] = "begin_loop"
     /\ \A i \in Slots : committing[i] \/ AtCap(i)
  \/ pc[t] = "begin_spin"
  \/ /\ pc[t] = "panic"
     /\ panicked = "release"

\* C8 (admission is live): no begin_op call is ever in a state from which
\* it cannot return; in particular none loops under logs.lock over logs
\* that are all committing or at their cap.
C8_BeginOpReturns == \A t \in Tasks : ~BeginOpStuck(t)

\* The same on the boots that left every field zero; it fails too, at the
\* release of line 474 after active was advanced.
BeginOpReturnsOnCleanBoot == CleanBoot => C8_BeginOpReturns

\* C9 (durability at quiescence): once every end_op has returned, each
\* block passed to log_write is home with its last logged contents and
\* every log is idle.
C9_Durability ==
  (CleanBoot /\ phase = "run" /\ panicked = ""
     /\ \A t \in Tasks : pc[t] = "idle") =>
    /\ \A b \in TxnBlocks :
         logged[b] # 0 => disk[b] = DataBlock(logged[b])
    /\ \A i \in Slots :
         lh[i].n = 0 /\ outstanding[i] = 0 /\ ~committing[i]

\* C10 (recovery completeness): after recover_from_log every log whose
\* header had n > 0 at boot was installed exactly once, and every header
\* has n = 0 on disk and in memory.
C10_RecoveryComplete ==
  (CleanBoot /\ phase = "recovered") =>
    \A i \in Slots :
      /\ boot_n[i] > 0 => installs[i] = 1
      /\ lh[i].n = 0
      /\ disk[HeadBlock(i)].n = 0

\* Task t is between the return of its begin_op and the decrement of its
\* end_op (line 493).
InTrans(t) == pc[t] \in {"in_op", "write_spin", "end_spin"}

\* C18 (slot stays accepting): while a task is between the return of its
\* begin_op and its end_op, the log its log_write and end_op operate on,
\* logs.logs[logs.active] as they find it when they get logs.lock, has
\* outstanding >= 1 and is not committing, and neither the "log_write
\* outside of trans" nor the "log.committing" panic has happened.
C18_SlotStaysAccepting ==
  /\ \A t \in Tasks :
       (phase = "run" /\ pc[t] = "in_op" /\ logsLock = NoTask)
         => (outstanding[active] >= 1 /\ ~committing[active])
  /\ panicked \notin {"log_write outside of trans", "log.committing"}

\* The same with every log's fields zero at boot.
SlotStaysAcceptingOnCleanBoot == CleanBoot => C18_SlotStaysAccepting

\* The blocks initlog gives log i (lines 290-291).
SlotRegion(i) == LogStart(i)..(LogStart(i) + LogSize(i) - 1)

\* C19 (header placement and region confinement): read_head and write_head
\* use block start_i of log i, and every log block a commit of log i writes
\* lies in [start_i, start_i + size_i), hence in no other log's region and
\* inside the log region of the superblock.
C19_HeaderPlacement ==
  /\ \A i \in Slots :
       /\ head_at[i] = LogStart(i)
       /\ head_at[i] \in SlotRegion(i)
       /\ head_at[i] \in LogRegion
  /\ \A t \in Tasks :
       pc[t] = "write_log"
         => LogBlock(to_commit[t], tail[t]) \in SlotRegion(to_commit[t])

\* C20 (outstanding is a count): as long as nothing has panicked, each log's
\* outstanding is >= 0 and is the number of tasks admitted into that log by
\* begin_op whose end_op has not yet decremented it.
C20_OutstandingCount ==
  panicked = "" =>
    \A i \in Slots :
      /\ outstanding[i] >= 0
      /\ outstanding[i] =
           Cardinality({t \in Tasks : InTrans(t) /\ admitted[t] = i})

\* The same with every log's fields zero at boot.
OutstandingCountOnCleanBoot == CleanBoot => C20_OutstandingCount

\* The logs whose committing flag is set, and those among them whose turn
\* it is by the predicate of line 508.
Sealed == {i \in Slots : committing[i]}
InTurn == {i \in Sealed : InstallTurn(i)}

\* C21 (install-turn predicate): whenever copies_committed > 0, exactly one
\* committing log satisfies lh.seq_nbr + copies_committed = seq_nbr; it is
\* the committing log with the lowest sequence number, the sequence numbers
\* of the committing logs are consecutive, and its committer is a task that
\* waits for its turn or is committing, so the committers do not wait on
\* each other for ever.
C21_InstallTurn ==
  copies_committed > 0 =>
    /\ Cardinality(InTurn) = 1
    /\ \A i \in InTurn : \A j \in Sealed : lh[i].seq_nbr <= lh[j].seq_nbr
    /\ {lh[j].seq_nbr : j \in Sealed}
         = (seq_nbr - copies_committed)..(seq_nbr - 1)
    /\ \E t \in Tasks :
         /\ pc[t] \in SealedPcs
         /\ to_commit[t] \in InTurn

\* Two logs are committing, each sealed by a task; the committer of the
\* later one sleeps.
C21_Witness ==
  /\ copies_committed = 2
  /\ Cardinality(Sealed) = 2
  /\ \E t \in Tasks : pc[t] = "end_sleep" /\ to_commit[t] \notin InTurn

\* The destination blocks in the header h.
Dests(h) == {h.block[k] : k \in 1..h.n}

\* What the disk shows at each point of commit() for the log that task t
\* commits: before the header is written its block on disk has n = 0 and no
\* home block has been touched; at the header write all n payload blocks
\* have been written to the log; during the install the header on disk lists every block of
\* the transaction; at the clear every destination is home.
CommitOrder(t) ==
  LET l == to_commit[t]
      h == lh[l]
  IN  /\ pc[t] \in {"write_log", "write_head"} =>
           /\ h.n > 0
           /\ disk[HeadBlock(l)].n = 0
           /\ \A b \in HomeBlocks : disk[b] = shadow[b]
      /\ pc[t] = "write_log" => tail[t] < h.n
      /\ pc[t] = "write_head" =>
           /\ tail[t] = h.n
           /\ \A k \in 0..(h.n - 1) : disk[LogBlock(l, k)].data # 0
      /\ pc[t] \in {"install_trans", "erase"} =>
           /\ h.n > 0
           /\ disk[HeadBlock(l)].n = h.n
           /\ \A k \in 1..h.n : disk[HeadBlock(l)].block[k] = h.block[k]
      /\ pc[t] = "erase" =>
           \A b \in Dests(h) : disk[b] = shadow[b]

\* A step changes the header of a committing log only by the clear of
\* line 556, which zeroes n.
SealedHeaderKept ==
  \A i \in Slots :
    (phase = "run" /\ phase' = "run" /\ committing[i] /\ lh'[i] # lh[i]) =>
      /\ \E t \in Tasks : pc[t] = "erase" /\ to_commit[t] = i
      /\ lh'[i] = [lh[i] EXCEPT !.n = 0]

\* C22 (write-ahead ordering inside one commit): for a sealed log with
\* n > 0 the n payload blocks are in the log before the header with n > 0
\* is written, that header is on disk before a home block is overwritten,
\* every home block is written before the header is rewritten with n = 0,
\* and the header's n and block list do not change from the seal to the
\* clear.
C22_WriteAhead ==
  /\ [](\A t \in Tasks : CommitOrder(t))
  /\ [][SealedHeaderKept]_vars

\* A committer has installed its log and is about to clear the header, which
\* is still on disk with n > 0.
C22_Witness ==
  \E t \in Tasks :
    /\ pc[t] = "erase"
    /\ lh[to_commit[t]].n > 0
    /\ disk[HeadBlock(to_commit[t])].n > 0

\* The locks task t holds.
HeldBy(t) == {i \in Slots : logLock[i] = t}

\* Task t is at a bread or bwrite of commit(): write_log, write_head or
\* install_trans.
DiskIO(t) == pc[t] \in {"write_log", "write_head", "install_trans", "erase"}

\* C23 (no log lock across disk I/O): a task at a block read or write of
\* commit or install holds neither logs.lock nor the lock of any log, and
\* recovery at boot starts with every lock free.
C23_NoLockAcrossIO ==
  /\ \A t \in Tasks : DiskIO(t) => (logsLock # t /\ HeldBy(t) = {})
  /\ phase = "crashed" =>
       (logsLock = NoTask /\ \A i \in Slots : logLock[i] = NoTask)

\* The same on a boot whose uninitialised fields happen to be zero.
NoLockAcrossIOOnCleanBoot == CleanBoot => C23_NoLockAcrossIO

\* The ring of sequence numbers of the comment of lines 216-221.
SeqRing == 0..LOGCOPIES

\* The logs sealed by an end_op call that has not finished.
Stamped == {to_commit[t] : t \in {u \in Tasks : pc[u] \in SealedPcs}}

\* Every sequence number stamped by end_op (line 499) is in the ring.
StampedInRing == \A i \in Stamped : lh[i].seq_nbr \in SeqRing

\* C24 (sequence-number range): after any number of commits the sequence
\* number end_op stamps into a log's header is in 0..LOGCOPIES, and
\* logs.seq_nbr stays in that ring.
C24_SeqRange ==
  /\ StampedInRing
  /\ seq_nbr \in SeqRing

\* Task t is in begin_op's loop at the releases of lines 474-475: the
\* active log admits it.
AtRelease(t) ==
  pc[t] = "begin_loop" /\ ~committing[active] /\ ~AtCap(active)

\* C25 (lock balance in begin_op): in begin_op's loop the caller holds
\* logs.lock, at the releases of lines 474-475 it holds the lock it
\* releases, that of the active log, and
\* once begin_op has returned it holds neither logs.lock nor the lock of any
\* log.
C25_BeginOpLockBalance ==
  \A t \in Tasks :
    /\ pc[t] = "begin_loop" => logsLock = t
    /\ AtRelease(t) => holding(logLock[active], t)
    /\ pc[t] = "in_op" => (logsLock # t /\ HeldBy(t) = {})

\* The same on a boot whose uninitialised fields happen to be zero.
BeginOpLockBalanceOnCleanBoot == CleanBoot => C25_BeginOpLockBalance

\* The logs whose header block on disk d, as read_head reads it (line 336),
\* is committed.
CommittedOnDisk(d) == {i \in Slots : d[HeadBlock(i)].n > 0}

\* C26 (at most one committed header on disk): while the system runs, and
\* at a crash, at most one log's header block on disk has n > 0, and it is
\* the header of a log whose committer is between its two header writes.
C26_OneCommittedHeader ==
  phase \in {"run", "crashed"} =>
    /\ Cardinality(CommittedOnDisk(disk)) <= 1
    /\ phase = "run" =>
         \A i \in CommittedOnDisk(disk) :
           \E t \in Tasks :
             /\ pc[t] \in {"install_trans", "erase"}
             /\ to_commit[t] = i

\* One log's header is on disk with n > 0 while a second sealed log waits
\* for its turn; and a crash finds one committed header.
C26_Witness ==
  /\ phase = "run"
  /\ Cardinality(CommittedOnDisk(disk)) = 1
  /\ Cardinality(Sealed) = 2
  /\ \E t \in Tasks : pc[t] = "end_sleep" /\ lh[to_commit[t]].n > 0

----------------------------------------------------------------------------
\* Properties of the pipe, checked under PipeSpec.

IsPrefix(a, b) ==
  /\ Len(a) <= Len(b)
  /\ \A k \in 1..Len(a) : a[k] = b[k]

\* C11 (pipe FIFO): at every moment the bytes the reads have returned are,
\* in order, a prefix of the bytes the writes have accepted: none is lost,
\* duplicated or reordered.
C11_PipeFIFO == IsPrefix(readout, written)

\* The reads have returned more than one ring of bytes and the writer is
\* still ahead of them.
C11_Witness ==
  /\ Len(readout) > PIPESIZE
  /\ Len(written) > Len(readout)

\* C12 (pipe capacity): in every state 0 <= nwrite - nread <= PIPESIZE, in
\* the arithmetic of uint, and the difference is the number of bytes accepted
\* and not yet returned.
C12_PipeCapacity ==
  /\ 0 <= Uint(nwrite - nread)
  /\ Uint(nwrite - nread) <= PIPESIZE
  /\ Uint(nwrite - nread) = Len(written) - Len(readout)

\* The ring is full and nwrite has wrapped round uint while nread has not.
C12_Witness ==
  /\ Uint(nwrite - nread) = PIPESIZE
  /\ nwrite < nread

\* The last call of p has returned.
Returned(p) == ppc[p] = "idle" /\ ncalls[p] > 0

\* C13 (pipe EOF): a piperead that starts once the write end is closed and
\* nread = nwrite returns 0 and never sleeps; a piperead of n > 0 bytes that
\* finds the buffer empty and the write end open does not return 0, and
\* unless its process is killed it sleeps.
C13_PipeEOF ==
  /\ (ncalls["r"] > 0 /\ entry["r"].empty /\ entry["r"].writeopen = 0)
        => (Returned("r") /\ ret["r"] = 0 /\ ~slept["r"])
  /\ (Returned("r") /\ req["r"] > 0 /\ seen.empty /\ seen.writeopen = 1)
        => ret["r"] # 0
  /\ (ncalls["r"] > 0 /\ req["r"] > 0 /\ entry["r"].empty
        /\ entry["r"].writeopen = 1 /\ ~entry["r"].killed)
        => slept["r"]

\* The reader drained the pipe, the writer closed, and the reader read again.
C13_Witness ==
  /\ Returned("r")
  /\ entry["r"].empty
  /\ entry["r"].writeopen = 0
  /\ ret["r"] = 0
  /\ Len(readout) > 0

\* C14 (reader-closed failure), as claimed: every pipewrite that starts
\* after the read end was closed returns -1, whatever its n, without sleeping
\* and without changing nwrite.
C14_ReaderClosedFails ==
  (ncalls["w"] > 0 /\ entry["w"].readopen = 0)
    => /\ Returned("w")
       /\ ret["w"] = -1
       /\ ~slept["w"]
       /\ nwrite = entry["w"].nwrite

\* C14, as the code has it: a pipewrite that starts after the read end was
\* closed never sleeps and leaves nwrite alone; it returns -1 when n > 0 and
\* 0 when n = 0, since the test of line 101 is inside the loop over i < n.
C14_ReaderClosedFailsNonEmpty ==
  (ncalls["w"] > 0 /\ entry["w"].readopen = 0)
    => /\ Returned("w")
       /\ ret["w"] = (IF req["w"] > 0 THEN -1 ELSE 0)
       /\ ~slept["w"]
       /\ nwrite = entry["w"].nwrite

\* The writer wrote some bytes, the reader closed, and the writer called
\* pipewrite with n > 0 again.
C14_Witness ==
  /\ Returned("w")
  /\ entry["w"].readopen = 0
  /\ req["w"] > 0
  /\ ret["w"] = -1
  /\ Len(written) > 0

\* C15 (task termination), as claimed: a call entered with the kill flag
\* set, or during whose sleep it was set, returns -1.
C15_KilledFails ==
  \A p \in Procs : (Returned(p) /\ killedin[p]) => ret[p] = -1

\* C15, as the code has it: such a pipewrite returns -1 when n > 0; such a
\* piperead returns -1 exactly when its test of line 141 finds the buffer
\* empty and the write end open, and otherwise returns the data or the end
\* of file like any other.
C15_KilledFailsInLoop ==
  /\ (Returned("w") /\ killedin["w"] /\ req["w"] > 0) => ret["w"] = -1
  /\ (Returned("r") /\ killedin["r"])
        => (ret["r"] = -1 <=> (seen.empty /\ seen.writeopen = 1))

\* The writer slept on a full ring, was killed there, and returned -1 with
\* part of its buffer accepted.
C15_Witness ==
  /\ Returned("w")
  /\ killedin["w"]
  /\ slept["w"]
  /\ ret["w"] = -1
  /\ nwrite # entry["w"].nwrite

\* C16 (pipe lifetime): whichever end is closed first, the pipe is freed
\* once, by the second pipeclose, and never while an end is open.
C16_PipeLifetime ==
  freed = (IF readopen = 0 /\ writeopen = 0 THEN 1 ELSE 0)

\* The reader closed first (the writer has since called pipewrite and been
\* refused), then the writer closed and the pipe was freed.
C16_Witness ==
  /\ freed = 1
  /\ Returned("w")
  /\ entry["w"].readopen = 0

\* Every call so far, of the writer and of the reader, has asked for W
\* bytes, W divides PIPESIZE, no copy has faulted and nobody was killed.
Records(W) ==
  /\ sizes = {W}
  /\ PIPESIZE % W = 0
  /\ ~faulted
  /\ \A p \in Procs : ~killed[p]

\* The buffer the writer passed to its c-th call, W bytes long.
Record(c, W) == [k \in 1..W |-> UserByte(c, k - 1)]

\* C17 (record alignment): when writer and reader both always pass W bytes,
\* W dividing PIPESIZE, without fault or kill, every piperead returns either
\* the W bytes of one whole write, in order, or 0 at the end of file.
C17_RecordAlignment ==
  \A W \in 1..MaxReq :
    (Records(W) /\ Returned("r"))
      => \/ /\ ret["r"] = 0
            /\ rbuf = <<>>
            /\ seen.empty
            /\ seen.writeopen = 0
         \/ /\ ret["r"] = W
            /\ \E c \in 1..ncalls["w"] : rbuf = Record(c, W)

\* With W smaller than the ring, the reader has received a second record.
C17_Witness ==
  \E W \in 1..MaxReq :
    /\ Records(W)
    /\ W < PIPESIZE
    /\ Returned("r")
    /\ ret["r"] = W
    /\ rbuf = Record(2, W)

\* Process p is asleep in sleep(): not runnable until a wakeup or a kill.
Asleep(p) == ppc[p] = "sleep"

\* The reader and the writer are never asleep together.
NeverBothAsleep == ~(Asleep("r") /\ Asleep("w"))

\* The reader is asleep although the pipe holds bytes or the write end is
\* closed; the writer is asleep although the pipe has room or the read end
\* is closed.
ReaderOwed == Asleep("r") /\ (nread # nwrite \/ writeopen = 0)
WriterOwed == Asleep("w") /\ (~Full(nwrite, nread) \/ readopen = 0)

\* No process is left asleep on a condition that no longer holds.
NoOwedSleeper == ~ReaderOwed /\ ~WriterOwed

\* C27 (no lost wakeup in the pipe): under fair scheduling the reader and
\* the writer are never asleep together, a reader asleep on the empty pipe
\* leaves its sleep once the writer has added a byte or closed, and a
\* writer asleep on the full pipe leaves its sleep once the reader has
\* removed a byte or closed, whichever way the peer's call ended.
C27_NoLostWakeup ==
  /\ []NeverBothAsleep
  /\ ReaderOwed ~> ~Asleep("r")
  /\ WriterOwed ~> ~Asleep("w")

\* The bytes in the ring, counted from the calls.
Occupancy == Len(written) - Len(readout)

\* The value the counter cnt had before the calls added len to it.
StartOf(cnt, len) == Uint(cnt - (len % UintMod))

\* The counter has passed the end of uint.
WrappedW == StartOf(nwrite, Len(written)) + Len(written) >= UintMod
WrappedR == StartOf(nread, Len(readout)) + Len(readout) >= UintMod

\* The span the next iteration of pipewrite copies, for every n and i it can
\* be at: at least one byte, inside data, no more than the free room.
WriteSpanOK ==
  \A n \in 1..MaxReq : \A i \in 0..(n - 1) :
    ~Full(nwrite, nread) =>
      LET delta == WriteDelta(n, i, nwrite, nread)
      IN  /\ delta >= 1
          /\ WriteAt(nwrite) >= 0
          /\ WriteAt(nwrite) + delta <= PIPESIZE
          /\ delta <= PIPESIZE - Occupancy
          /\ delta <= n - i

\* The span the next iteration of piperead copies.
ReadSpanOK ==
  \A n \in 1..MaxReq : \A i \in 0..(n - 1) :
    nread # nwrite =>
      LET delta == ReadDelta(n, i, nwrite, nread)
      IN  /\ delta >= 1
          /\ (nread % PIPESIZE) + delta <= PIPESIZE
          /\ delta <= Occupancy
          /\ delta <= n - i

\* C28 (counter wraparound): with nread and nwrite wrapping round uint, the
\* full test is true exactly when PIPESIZE bytes are in the ring, the
\* empty test exactly when none is, nwrite - nread is the number of bytes in
\* the ring, every span copied is at least one byte and lies inside data,
\* and the bytes come out in the order they went in, never more than
\* PIPESIZE of them waiting.
C28_Wraparound ==
  /\ Full(nwrite, nread) <=> Occupancy = PIPESIZE
  /\ nread = nwrite <=> Occupancy = 0
  /\ Uint(nwrite - nread) = Occupancy
  /\ Occupancy \in 0..PIPESIZE
  /\ WriteSpanOK
  /\ ReadSpanOK
  /\ IsPrefix(readout, written)

\* Both counters have passed the end of uint, nwrite in the middle of a
\* call, and the ring has filled again since.
C28_Witness ==
  /\ WrappedW
  /\ WrappedR
  /\ Full(nwrite, nread)
  /\ \E n \in sizes : n > UintMod - Carried

=============================================================================
